---- MODULE Spec2Model ----
(***************************************************************************)
(* Model of the Algolia indexing plugin (src/algolia/plugin.py,            *)
(* src/algolia/utils.py, src/algolia/tasks.py).                            *)
(*                                                                         *)
(* One product of the catalog is followed: its row (existence, slug,       *)
(* metadata), its vendor association set and its channel listings, the     *)
(* per-locale remote indices, and a record of what the most recent hook    *)
(* invocation did (documents built, remote calls issued, how it ended).    *)
(* Hooks are atomic actions translated from the handlers; the interleaved  *)
(* order_created of SpecConc splits the handler at its database accesses.  *)
(***************************************************************************)
EXTENDS Integers, Sequences, FiniteSets, TLC

\* ------------------------------------------------------------------ bounds
MaxListings == 2        \* channel listings of the product
MaxPopularity == 4      \* cap of the popularity counter in the guards
MaxQuantity == 2        \* largest order line quantity
MaxLines == 2           \* order lines per order
MaxOrders == 2          \* order_created calls running at the same time
MaxVariants == 1        \* variants of the product in the query result
MaxAttrs == 1           \* product-level attribute assignments
MaxVariantAttrs == 1    \* variant-level attribute assignments
MaxValues == 2          \* values per attribute assignment

\* --------------------------------------------------------------- constants
None == "None"

\* DEFAULT_CONFIGURATION "en,ar", split(",") in get_client
ALGOLIA_LOCALES == <<"en", "ar">>

\* locale -> index handle, one per configured locale, in configuration order
indices == ALGOLIA_LOCALES

LocaleSet == {indices[i] : i \in 1..Len(indices)}

\* locale.upper() at the call sites
upper(locale) == IF locale = "en" THEN "EN" ELSE IF locale = "ar" THEN "AR" ELSE locale

Slugs == {"shirt", "shirt-2"}
Channels == <<"default-channel", "channel-pln", "channel-eur">>

\* Vendor rows that exist, and their brand names
Vendors == {"V1", "V2"}
brand_name(v) == IF v = "V1" THEN "BrandX" ELSE "BrandY"
\* what the metadata key "vendor" can hold: an existing vendor or a dangling id
VendorRefs == Vendors \cup {"V9"}

VARIABLES
    active,         \* plugin.active
    productExists,  \* the Product row is in the database
    slug,           \* product.slug
    metadata,       \* product.metadata, a dict: key -> value
    vendor_set,     \* product.vendor_set, the vendor association set
    listings,       \* product channel listings as the query returns them
    index,          \* per locale: the objectIDs the remote index holds
    last,           \* what the most recent hook invocation did
    repeat,         \* consecutive product_updated runs with no catalog change between
    procs,          \* interleaved order_created calls: position and local copy
    popularity0,    \* the stored popularity before the interleaved calls began
    attr_in,        \* input of map_product_attributes
    attr_out        \* its result

vars == <<active, productExists, slug, metadata, vendor_set, listings, index,
          last, repeat, procs, popularity0, attr_in, attr_out>>

\* ---------------------------------------------------------------- metadata
\* ModelWithMetadata.get_value_from_metadata(key, default)
get_value_from_metadata(md, key, default) ==
    IF key \in DOMAIN md THEN md[key] ELSE default

\* ModelWithMetadata.store_value_in_metadata(items): dict.update
store_value_in_metadata(md, items) ==
    [k \in DOMAIN md \cup DOMAIN items |->
        IF k \in DOMAIN items THEN items[k] ELSE md[k]]

\* ------------------------------------------------------------- sequences
InSeq(x, s) == \E i \in 1..Len(s) : s[i] = x

\* the rows of a vendor queryset, in primary-key order
VendorOrder == <<"V1", "V2">>
vendor_set_all(vs) == SelectSeq(VendorOrder, LAMBDA v : v \in vs)

\* ------------------------------------------------- map_product_attributes
\* An attribute assignment of the query result: the attribute's name and its
\* translation's name (None when the attribute has no translation for the
\* language, or when the query asks for none, as for variant attributes), and
\* the values, each with its name and its translation's name.
AttrNames == <<"Color", "Size", "Fit">>
AttrTranslations == <<"Lawn", "Maqas", "Qassa">>
ValueNames == <<"Red", "Blue", "Green">>
ValueTranslations == <<"Ahmar", "Azraq", "Akhdar">>

\* a python dict with one key, and the empty dict
Dict1(key, value) == [k \in {key} |-> value]
EmptyDict == [k \in {} |-> <<>>]

\* [value.get("name") for value in attribute.get("values")]
value_names(values) == [i \in 1..Len(values) |-> values[i].name]

\* [value.get("translation").get("name") for value in values
\*  if value.get("translation")]
translated_value_names(values) ==
    LET kept == SelectSeq(values, LAMBDA v : v.translation # None)
    IN [i \in 1..Len(kept) |-> kept[i].translation]

\* attr_dict of one assignment
attr_dict(a) == Dict1(a.name, value_names(a.values))

\* attr_dict_ar of one assignment: filled only when the attribute is translated
attr_dict_ar(a) ==
    IF a.translation # None
    THEN Dict1(a.translation, translated_value_names(a.values))
    ELSE EmptyDict

RECURSIVE variant_attributes(_)
\* for variant in variants: attributes.extend(variant.get("attributes", []))
variant_attributes(variants) ==
    IF variants = <<>> THEN <<>>
    ELSE Head(variants).attributes \o variant_attributes(Tail(variants))

\* map_product_attributes(product_dict, language_code): [returned, attrs];
\* without attributes the function falls off its end and returns None
map_product_attributes(product_dict, language_code) ==
    LET attributes == product_dict.attributes \o variant_attributes(product_dict.variants)
    IN  IF attributes = <<>>
        THEN [returned |-> None, attrs |-> <<>>]
        ELSE [returned |-> "list",
              attrs |-> IF language_code = "EN"
                        THEN [i \in 1..Len(attributes) |-> attr_dict(attributes[i])]
                        ELSE [i \in 1..Len(attributes) |-> attr_dict_ar(attributes[i])]]

\* ------------------------------------------------------- get_product_data
\* A Money value of the query result, or null; amounts are in hundredths, and
\* Decimal(amount) keeps the amount's value.
Money(a) == [null |-> FALSE, amount |-> a]
NullMoney == [null |-> TRUE, amount |-> 0]

\* One channel listing of the query result: pricing is whether the listing's
\* pricing block is present (not null), discount whether pricing.discount is,
\* discountedPrice the listing's discountedPrice.
\* The flags are read only when pricing is present, so one pricing-less
\* listing (with both flags set) stands for all of them; these listings carry
\* no discount.
ListingKinds ==
    [pricing : {TRUE}, isPublished : BOOLEAN, isAvailableForPurchase : BOOLEAN,
     discount : {FALSE}, discountedPrice : {NullMoney}]
    \cup [pricing : {FALSE}, isPublished : {TRUE}, isAvailableForPurchase : {TRUE},
          discount : {FALSE}, discountedPrice : {NullMoney}]

ListingSeqs == UNION {[1..n -> ListingKinds] : n \in 0..MaxListings}

\* what the query of one build returned: data without errors, data with
\* errors, or errors and no data
QueryResults == {"ok", "errors", "nodata"}

\* Faulty variant: the admission test without the publication flag
is_eligible_unpublished(l) ==
    l.pricing /\ l.isAvailableForPurchase

\* the test that admits a listing to the channels list
is_eligible(l) ==
    l.pricing /\ l.isAvailableForPurchase /\ l.isPublished

\* price: {"amount": 0} unless the first variant has a channel listing, then
\* that listing's price (which stays null when it is null)
base_price(variants) ==
    IF variants # <<>> /\ Head(variants).channelListings # <<>>
    THEN Head(Head(variants).channelListings).price
    ELSE Money(0)

\* Faulty variant: the discounted price taken whenever the listing has one
discounted_price_any(l, price) ==
    IF ~l.discountedPrice.null THEN l.discountedPrice.amount ELSE price.amount

\* the block's discounted_price: the listing's discountedPrice amount if it has
\* one and pricing.discount is present, else the price amount
discounted_price(l, price) ==
    IF ~l.discountedPrice.null /\ l.discount
    THEN l.discountedPrice.amount
    ELSE price.amount

\* price.get("amount", 0) on a null price raises in the first admitted listing
channels_raise(ls, price) ==
    price.null /\ \E i \in 1..Len(ls) : is_eligible(ls[i])

\* the channels list: one block per admitted listing, in listing order
channel_blocks(ls, price) ==
    LET idx == SelectSeq([i \in 1..Len(ls) |-> i], LAMBDA i : is_eligible(ls[i]))
    IN [k \in 1..Len(idx) |->
            [name |-> Channels[idx[k]],
             price |-> price.amount,
             discounted_price |-> discounted_price(ls[idx[k]], price)]]

RECURSIVE append_brands(_, _)
\* for vendor in product.vendor_set.all(): append brand_name if not in vendors
append_brands(vendors, rows) ==
    IF rows = <<>> THEN vendors
    ELSE append_brands(
            IF InSeq(brand_name(Head(rows)), vendors) THEN vendors
            ELSE Append(vendors, brand_name(Head(rows))),
            Tail(rows))

\* Faulty variant: the vendor block listing the associations before it clears them
resolve_vendors_stale(md, vs) ==
    LET vendor_id == get_value_from_metadata(md, "vendor", None) IN
    IF vendor_id # None
    THEN IF vendor_id \notin Vendors
         THEN [raised |-> TRUE, vendor_set |-> vs, vendors |-> <<>>]
         ELSE LET added == vs \cup {vendor_id}
              IN [raised |-> FALSE, vendor_set |-> added,
                  vendors |-> append_brands(<<brand_name(vendor_id)>>,
                                            vendor_set_all(added))]
    ELSE [raised |-> FALSE, vendor_set |-> {},
          vendors |-> append_brands(<<>>, vendor_set_all(vs))]

\* Faulty variant: the vendor block without the clear of the else branch
resolve_vendors_no_clear(md, vs) ==
    LET vendor_id == get_value_from_metadata(md, "vendor", None) IN
    IF vendor_id # None
    THEN IF vendor_id \notin Vendors
         THEN [raised |-> TRUE, vendor_set |-> vs, vendors |-> <<>>]
         ELSE LET added == vs \cup {vendor_id}
              IN [raised |-> FALSE, vendor_set |-> added,
                  vendors |-> append_brands(<<brand_name(vendor_id)>>,
                                            vendor_set_all(added))]
    ELSE [raised |-> FALSE, vendor_set |-> vs, vendors |-> <<>>]

\* the vendor block of get_product_data: [raised, vendor_set, vendors]
resolve_vendors(md, vs) ==
    LET vendor_id == get_value_from_metadata(md, "vendor", None) IN
    IF vendor_id # None
    THEN IF vendor_id \notin Vendors
         THEN [raised |-> TRUE, vendor_set |-> vs, vendors |-> <<>>]
         ELSE LET added == vs \cup {vendor_id}
              IN [raised |-> FALSE, vendor_set |-> added,
                  vendors |-> append_brands(<<brand_name(vendor_id)>>,
                                            vendor_set_all(added))]
    ELSE [raised |-> FALSE, vendor_set |-> {}, vendors |-> <<>>]

\* Faulty variant: the final test without the errors check
returns_document_despite_errors(q, channels) == channels # <<>>

\* the final test: a document is returned only without errors and with channels
returns_document(q, channels) == q = "ok" /\ channels # <<>>

NoDoc == [objectID |-> None]

\* get_product_data(product_pk, language_code) on the catalog state db with
\* query outcome q: [result, doc, vendor_set]
get_product_data(db, language_code, q) ==
    IF ~db.productExists \/ q = "nodata"
    THEN [result |-> "raise", doc |-> NoDoc, vendor_set |-> db.vendor_set]
    ELSE
    LET price == base_price(db.variants)
        channels == channel_blocks(db.listings, price)
        v == resolve_vendors(db.metadata, db.vendor_set)
    IN  IF channels_raise(db.listings, price) \/ v.raised
        THEN [result |-> "raise", doc |-> NoDoc, vendor_set |-> db.vendor_set]
        ELSE IF returns_document(q, channels)
        THEN [result |-> "doc",
              doc |-> [objectID |-> db.slug,
                       vendors |-> v.vendors,
                       channels |-> channels,
                       attributes |-> map_product_attributes(db, language_code),
                       popularity |->
                           get_value_from_metadata(db.metadata, "popularity", 0)],
              vendor_set |-> v.vendor_set]
        ELSE [result |-> "None", doc |-> NoDoc, vendor_set |-> v.vendor_set]

\* ------------------------------------------------------------ remote index
\* index.save_object(obj, autoGenerateObjectIDIfNotExist=False): the index holds
\* a record under obj.objectID afterwards
save_object(held, obj) == held \cup {obj.objectID}

\* index.partial_update_object(obj, createIfNotExists=True): likewise
partial_update_object(held, obj) == held \cup {obj.objectID}

\* index.delete_object(object_id): no record under object_id afterwards
delete_object(held, object_id) == held \ {object_id}

\* ------------------------------------------------------------------ hooks
\* the catalog state a hook reads
Catalog ==
    [productExists |-> productExists, slug |-> slug, metadata |-> metadata,
     vendor_set |-> vendor_set, listings |-> listings,
     attributes |-> attr_in.attributes, variants |-> attr_in.variants]

\* per-locale inputs of one hook invocation: the outcome of each build's query
\* (a build that gets no data raises, so the later locales are never queried),
\* and the locales whose index rejects the write
QueryInputs ==
    [LocaleSet -> {"ok", "errors"}] \cup {[l \in LocaleSet |-> "nodata"]}
RejectInputs == SUBSET LocaleSet

\* the running state of a hook's loop over the indices
StartRun(vs, idx) ==
    [vendor_set |-> vs, index |-> idx, builds |-> <<>>, calls |-> <<>>,
     outcome |-> "returned"]

\* the body of "for locale, index in self.get_client().indices.items()" of the
\* building hooks: build, and write with op when a document came back
build_and_write(run, locale, op, db, q, rej) ==
    LET r == get_product_data([db EXCEPT !.vendor_set = run.vendor_set],
                              upper(locale), q[locale])
        b == [locale |-> locale, query |-> q[locale], result |-> r.result]
    IN  IF r.result = "raise"
        THEN [run EXCEPT !.builds = Append(@, b), !.outcome = "raised"]
        ELSE IF r.result = "None"
        THEN [run EXCEPT !.builds = Append(@, b), !.vendor_set = r.vendor_set]
        ELSE LET ok == locale \notin rej
                 c == [op |-> op, locale |-> locale, obj |-> r.doc, accepted |-> ok]
             IN [run EXCEPT
                    !.builds = Append(@, b),
                    !.vendor_set = r.vendor_set,
                    !.calls = Append(@, c),
                    !.index[locale] =
                        IF ~ok THEN @
                        ELSE IF op = "save_object" THEN save_object(@, r.doc)
                        ELSE partial_update_object(@, r.doc),
                    !.outcome = IF ok THEN "returned" ELSE "raised"]

\* Faulty variant: a delete that first checks that the index holds the record
delete_from_if_held(run, locale, object_id, rej) ==
    IF object_id \notin run.index[locale] THEN run
    ELSE LET ok == locale \notin rej
             c == [op |-> "delete_object", locale |-> locale,
                   obj |-> [objectID |-> object_id], accepted |-> ok]
         IN [run EXCEPT
                !.calls = Append(@, c),
                !.index[locale] = IF ok THEN delete_object(@, object_id) ELSE @,
                !.outcome = IF ok THEN "returned" ELSE "raised"]

\* the body of product_deleted's loop
delete_from(run, locale, object_id, rej) ==
    LET ok == locale \notin rej
        c == [op |-> "delete_object", locale |-> locale,
              obj |-> [objectID |-> object_id], accepted |-> ok]
    IN [run EXCEPT
           !.calls = Append(@, c),
           !.index[locale] = IF ok THEN delete_object(@, object_id) ELSE @,
           !.outcome = IF ok THEN "returned" ELSE "raised"]

RECURSIVE for_indices(_, _, _, _, _, _)
\* the loop over indices from position i; an exception ends it
for_indices(run, i, op, db, q, rej) ==
    IF i > Len(indices) \/ run.outcome = "raised" THEN run
    ELSE for_indices(
            IF op = "delete_object"
            THEN delete_from(run, indices[i], db.slug, rej)
            ELSE build_and_write(run, indices[i], op, db, q, rej),
            i + 1, op, db, q, rej)

\* what a hook invocation is recorded as: the hook, its argument (the
\* translation's class, or the order's lines), whether get_client() was called,
\* how it ended, the builds it ran and the remote calls it issued
NoArg == ""

Record(hook, arg, client, run) ==
    [hook |-> hook, arg |-> arg, lines |-> <<>>, client |-> client,
     outcome |-> run.outcome, builds |-> run.builds, calls |-> run.calls]

Idle == [hook |-> "none", arg |-> NoArg, lines |-> <<>>, client |-> FALSE,
         outcome |-> "returned", builds |-> <<>>, calls |-> <<>>]

\* a hook that returned without touching anything
Untouched(hook, arg) ==
    /\ last' = [Idle EXCEPT !.hook = hook, !.arg = arg]
    /\ repeat' = 0
    /\ UNCHANGED <<vendor_set, index>>

\* the loop over indices with op, as a hook's whole body
LocaleLoop(hook, arg, op, q, rej) ==
    LET run == for_indices(StartRun(vendor_set, index), 1, op, Catalog, q, rej)
    IN /\ vendor_set' = run.vendor_set
       /\ index' = run.index
       /\ last' = Record(hook, arg, TRUE, run)
       /\ repeat' = IF hook = "product_updated" /\ last.hook = "product_updated"
                       /\ last.calls # <<>> /\ run.calls # <<>>
                    THEN 1 ELSE 0

\* @require_active_plugin: an inactive plugin returns previous_value at once
require_active_plugin(hook, arg, body) ==
    IF active THEN body ELSE Untouched(hook, arg)

HookFrame == UNCHANGED <<active, productExists, slug, metadata, listings, procs,
                         popularity0, attr_in, attr_out>>

AllOk == [l \in LocaleSet |-> "ok"]

product_created ==
    \E q \in QueryInputs, rej \in RejectInputs :
        /\ require_active_plugin("product_created", NoArg,
               LocaleLoop("product_created", NoArg, "save_object", q, rej))
        /\ HookFrame

product_updated_body(q, rej) ==
    LocaleLoop("product_updated", NoArg, "partial_update_object", q, rej)

product_updated ==
    \E q \in QueryInputs, rej \in RejectInputs :
        /\ require_active_plugin("product_updated", NoArg, product_updated_body(q, rej))
        /\ HookFrame

product_deleted ==
    \E rej \in RejectInputs :
        /\ require_active_plugin("product_deleted", NoArg,
               LocaleLoop("product_deleted", NoArg, "delete_object", AllOk, rej))
        /\ HookFrame

\* the classes a translation passed to the translation hooks can have
TranslationKinds == {"ProductTranslation", "CategoryTranslation"}

\* the body of translation_created: isinstance(translation, ProductTranslation)
translation_created_body(kind, q, rej) ==
    IF kind = "ProductTranslation"
    THEN LocaleLoop("translation_created", kind, "save_object", q, rej)
    ELSE Untouched("translation_created", kind)

translation_created ==
    \E kind \in TranslationKinds, q \in QueryInputs, rej \in RejectInputs :
        /\ require_active_plugin("translation_created", kind,
                                 translation_created_body(kind, q, rej))
        /\ HookFrame

\* Faulty variant: translation_updated without the isinstance test
translation_updated_any_kind(kind, q, rej) ==
    LocaleLoop("translation_updated", kind, "partial_update_object", q, rej)

\* the body of translation_updated
translation_updated_body(kind, q, rej) ==
    IF kind = "ProductTranslation"
    THEN LocaleLoop("translation_updated", kind, "partial_update_object", q, rej)
    ELSE Untouched("translation_updated", kind)

translation_updated ==
    \E kind \in TranslationKinds, q \in QueryInputs, rej \in RejectInputs :
        /\ require_active_plugin("translation_updated", kind,
                                 translation_updated_body(kind, q, rej))
        /\ HookFrame

product_variant_created ==
    \E q \in QueryInputs, rej \in RejectInputs :
        /\ require_active_plugin("product_variant_created", NoArg,
               LocaleLoop("product_variant_created", NoArg, "save_object", q, rej))
        /\ HookFrame

product_variant_updated ==
    \E q \in QueryInputs, rej \in RejectInputs :
        /\ require_active_plugin("product_variant_updated", NoArg,
               LocaleLoop("product_variant_updated", NoArg, "partial_update_object",
                          q, rej))
        /\ HookFrame

\* tasks.py: the bulk task runs product_updated for every product when the
\* plugin is active
index_products_data_into_algolia_task ==
    \E q \in QueryInputs, rej \in RejectInputs :
        /\ IF active /\ productExists
           THEN LocaleLoop("product_updated", "task", "partial_update_object", q, rej)
           ELSE Untouched("index_products_data_into_algolia_task", NoArg)
        /\ HookFrame

\* ----------------------------------------------------------- order_created
\* an order line: whether line.variant has a product, and line.quantity
OrderLines == [has_product : BOOLEAN, quantity : 1..MaxQuantity]
Orders == UNION {[1..n -> OrderLines] : n \in 1..MaxLines}

\* the metadata key order_created reads the counter from
popularity_key == ""

\* popularity = product.get_value_from_metadata("", 0); popularity += quantity;
\* product.store_value_in_metadata(items={"popularity": popularity})
add_popularity(md, quantity) ==
    store_value_in_metadata(
        md, [k \in {"popularity"} |->
                get_value_from_metadata(md, popularity_key, 0) + quantity])

RECURSIVE for_lines(_, _, _, _, _)
\* the loop over order.lines.all(): st is [metadata, run]
for_lines(st, lines, db, q, rej) ==
    IF lines = <<>> \/ st.run.outcome = "raised" THEN st
    ELSE LET line == Head(lines) IN
         IF ~line.has_product THEN for_lines(st, Tail(lines), db, q, rej)
         ELSE LET md == add_popularity(st.metadata, line.quantity)
                  run == for_indices(st.run, 1, "save_object",
                                     [db EXCEPT !.metadata = md], q, rej)
              IN for_lines([metadata |-> md, run |-> run], Tail(lines), db, q, rej)

RECURSIVE total_quantity(_)
total_quantity(lines) ==
    IF lines = <<>> THEN 0
    ELSE (IF Head(lines).has_product THEN Head(lines).quantity ELSE 0)
         + total_quantity(Tail(lines))

\* order_created carries no @require_active_plugin
order_created ==
    \E lines \in Orders, q \in QueryInputs, rej \in RejectInputs :
        /\ \A i \in 1..Len(lines) : lines[i].has_product => productExists
        /\ get_value_from_metadata(metadata, "popularity", 0) + total_quantity(lines)
               <= MaxPopularity
        /\ LET st == for_lines([metadata |-> metadata,
                                run |-> StartRun(vendor_set, index)],
                               lines, Catalog, q, rej)
           IN /\ metadata' = st.metadata
              /\ vendor_set' = st.run.vendor_set
              /\ index' = st.run.index
              /\ last' = [Record("order_created", NoArg,
                                 \E i \in 1..Len(lines) : lines[i].has_product,
                                 st.run)
                          EXCEPT !.lines = lines]
              /\ repeat' = 0
        /\ UNCHANGED <<active, productExists, slug, listings, procs, popularity0, attr_in, attr_out>>

\* ---------------------------------------------------------------- catalog
\* Changes made to the catalog and the plugin configuration by the host
\* application, outside the plugin.
Forget == last' = Idle /\ repeat' = 0

EmptyMetadata == [k \in {} |-> None]

set_active ==
    /\ active' = ~active
    /\ Forget
    /\ UNCHANGED <<productExists, slug, metadata, vendor_set, listings, index, procs,
                   popularity0, attr_in, attr_out>>

catalog_create_product ==
    /\ ~productExists
    /\ productExists' = TRUE
    /\ metadata' = EmptyMetadata /\ vendor_set' = {} /\ listings' = <<>>
    /\ Forget
    /\ UNCHANGED <<active, slug, index, procs, popularity0, attr_in, attr_out>>

catalog_delete_product ==
    /\ productExists
    /\ productExists' = FALSE
    /\ metadata' = EmptyMetadata /\ vendor_set' = {} /\ listings' = <<>>
    /\ Forget
    /\ UNCHANGED <<active, slug, index, procs, popularity0, attr_in, attr_out>>

catalog_set_slug ==
    /\ productExists
    /\ \E s \in Slugs \ {slug} : slug' = s
    /\ Forget
    /\ UNCHANGED <<active, productExists, metadata, vendor_set, listings, index, procs,
                   popularity0, attr_in, attr_out>>

\* a listing is added, changed or removed
catalog_set_listings ==
    /\ productExists
    /\ \/ \E l \in ListingKinds :
            /\ Len(listings) < MaxListings
            /\ listings' = Append(listings, l)
       \/ \E i \in 1..Len(listings), l \in ListingKinds :
            /\ l # listings[i]
            /\ listings' = [listings EXCEPT ![i] = l]
       \/ /\ listings # <<>>
          /\ listings' = SubSeq(listings, 1, Len(listings) - 1)
    /\ Forget
    /\ UNCHANGED <<active, productExists, slug, metadata, vendor_set, index, procs,
                   popularity0, attr_in, attr_out>>

\* the product gets its first listing, published and purchasable, or loses it
PublishedListing ==
    [pricing |-> TRUE, isPublished |-> TRUE, isAvailableForPurchase |-> TRUE,
     discount |-> FALSE, discountedPrice |-> NullMoney]

catalog_publish ==
    /\ productExists
    /\ listings' = IF listings = <<>> THEN <<PublishedListing>> ELSE <<>>
    /\ Forget
    /\ UNCHANGED <<active, productExists, slug, metadata, vendor_set, index, procs,
                   popularity0, attr_in, attr_out>>

\* the metadata key "vendor" is set to a vendor reference, or removed
catalog_set_vendor_reference ==
    /\ productExists
    /\ \/ \E v \in VendorRefs :
            metadata' = store_value_in_metadata(metadata, [k \in {"vendor"} |-> v])
       \/ metadata' = [k \in DOMAIN metadata \ {"vendor"} |-> metadata[k]]
    /\ metadata' # metadata
    /\ Forget
    /\ UNCHANGED <<active, productExists, slug, vendor_set, listings, index, procs,
                   popularity0, attr_in, attr_out>>

\* a vendor takes the product into, or out of, its products
catalog_set_vendor_products ==
    /\ productExists
    /\ \E v \in Vendors :
          vendor_set' = IF v \in vendor_set THEN vendor_set \ {v} ELSE vendor_set \cup {v}
    /\ Forget
    /\ UNCHANGED <<active, productExists, slug, metadata, listings, index, procs,
                   popularity0, attr_in, attr_out>>

\* ----------------------------------------------------------- specification
NoAttrs == [language_code |-> "EN", attributes |-> <<>>, variants |-> <<>>]

Init ==
    /\ active = FALSE
    /\ productExists = TRUE
    /\ slug = "shirt"
    /\ metadata = EmptyMetadata
    /\ vendor_set = {}
    /\ listings = <<>>
    /\ index = [l \in LocaleSet |-> {}]
    /\ last = Idle
    /\ repeat = 0
    /\ procs = <<>>
    /\ popularity0 = 0
    /\ attr_in = NoAttrs
    /\ attr_out = <<>>

\* The hooks of product mutations, over a catalog whose listings and vendor
\* reference change.
Next ==
    \/ product_created
    \/ product_updated
    \/ product_deleted
    \/ set_active
    \/ catalog_create_product
    \/ catalog_delete_product
    \/ catalog_set_listings
    \/ catalog_set_vendor_reference

Spec == Init /\ [][Next]_vars

\* The product hooks over a catalog whose vendor reference and vendor
\* associations change.
NextVendor ==
    \/ product_created
    \/ product_updated
    \/ set_active
    \/ catalog_publish
    \/ catalog_set_vendor_reference
    \/ catalog_set_vendor_products

SpecVendor == Init /\ [][NextVendor]_vars

\* The product hooks and the remote indices over a product whose slug changes.
NextIndex ==
    \/ product_created
    \/ product_updated
    \/ product_deleted
    \/ set_active
    \/ catalog_create_product
    \/ catalog_delete_product
    \/ catalog_publish
    \/ catalog_set_slug

SpecIndex == Init /\ [][NextIndex]_vars

\* The hooks that re-index the owning product, and the bulk task.
NextTranslation ==
    \/ index_products_data_into_algolia_task
    \/ translation_created
    \/ translation_updated
    \/ product_variant_created
    \/ product_variant_updated
    \/ set_active
    \/ catalog_set_listings

SpecTranslation == Init /\ [][NextTranslation]_vars

\* Orders placed one after the other.
NextOrder ==
    \/ order_created
    \/ set_active
    \/ catalog_publish

SpecOrder == Init /\ [][NextOrder]_vars

\* ------------------------------------------- order_created, interleaved
\* Each call handles an order of one line whose variant has a product. The
\* handler is split where it touches the database: the load of
\* line.variant.product, the in-memory add, product.save, and the re-index.
order_read(p) ==
    /\ procs[p].pc = "read"
    /\ procs' = [procs EXCEPT ![p].product = metadata, ![p].pc = "add"]
    /\ UNCHANGED <<active, productExists, slug, metadata, vendor_set, listings, index,
                   last, repeat, popularity0, attr_in, attr_out>>

order_add(p) ==
    /\ procs[p].pc = "add"
    /\ procs' = [procs EXCEPT
                    ![p].product = add_popularity(@, procs[p].quantity),
                    ![p].pc = "save"]
    /\ UNCHANGED <<active, productExists, slug, metadata, vendor_set, listings, index,
                   last, repeat, popularity0, attr_in, attr_out>>

\* product.save(update_fields=["metadata"]) writes the instance's metadata
order_save(p) ==
    /\ procs[p].pc = "save"
    /\ metadata' = procs[p].product
    /\ procs' = [procs EXCEPT ![p].pc = "index"]
    /\ UNCHANGED <<active, productExists, slug, vendor_set, listings, index,
                   last, repeat, popularity0, attr_in, attr_out>>

order_index(p) ==
    /\ procs[p].pc = "index"
    /\ \E q \in QueryInputs, rej \in RejectInputs :
          LET run == for_indices(StartRun(vendor_set, index), 1, "save_object",
                                 Catalog, q, rej)
          IN /\ vendor_set' = run.vendor_set
             /\ index' = run.index
             /\ last' = [Record("order_created", NoArg, TRUE, run)
                         EXCEPT !.lines = <<[has_product |-> TRUE,
                                             quantity |-> procs[p].quantity]>>]
    /\ procs' = [procs EXCEPT ![p].pc = "done"]
    /\ UNCHANGED <<active, productExists, slug, metadata, listings, repeat,
                   popularity0, attr_in, attr_out>>

PopularityMetadata(n) == [k \in {"popularity"} |-> n]

InitConc ==
    /\ active = TRUE
    /\ productExists = TRUE
    /\ slug = "shirt"
    /\ \E n \in 0..MaxQuantity :
          /\ metadata = IF n = 0 THEN EmptyMetadata ELSE PopularityMetadata(n)
          /\ popularity0 = n
    /\ vendor_set = {}
    /\ listings = <<PublishedListing>>
    /\ index = [l \in LocaleSet |-> {}]
    /\ last = Idle
    /\ repeat = 0
    /\ procs \in [1..MaxOrders ->
                    [pc : {"read"}, quantity : 1..MaxQuantity,
                     product : {EmptyMetadata}]]
    /\ attr_in = NoAttrs
    /\ attr_out = <<>>

NextConc ==
    \E p \in DOMAIN procs :
        \/ order_read(p)
        \/ order_add(p)
        \/ order_save(p)
        \/ order_index(p)

SpecConc == InitConc /\ [][NextConc]_vars

\* ------------------------------------------- map_product_attributes, alone
ValueSeqs(translations) ==
    UNION {{v \in [1..n -> [name : {ValueNames[i] : i \in 1..MaxValues},
                            translation : translations]] :
               \A i \in 1..n : /\ v[i].name = ValueNames[i]
                               /\ v[i].translation \in {None, ValueTranslations[i]}}
           : n \in 0..MaxValues}

\* assignments whose i-th attribute is AttrNames[i], translated or not
AttrSeqs(maxlen, translated) ==
    LET trs == IF translated
               THEN {None} \cup {ValueTranslations[i] : i \in 1..MaxValues}
               ELSE {None}
        atrs == IF translated
                THEN {None} \cup {AttrTranslations[i] : i \in 1..maxlen}
                ELSE {None}
    IN UNION {{a \in [1..n -> [name : {AttrNames[i] : i \in 1..maxlen},
                               translation : atrs,
                               values : ValueSeqs(trs)]] :
                  \A i \in 1..n : /\ a[i].name = AttrNames[i]
                                  /\ a[i].translation \in {None, AttrTranslations[i]}}
              : n \in 0..maxlen}

InitAttr ==
    /\ active = FALSE
    /\ productExists = TRUE
    /\ slug = "shirt"
    /\ metadata = EmptyMetadata
    /\ popularity0 = 0
    /\ vendor_set = {}
    /\ listings = <<>>
    /\ index = [l \in LocaleSet |-> {}]
    /\ last = Idle
    /\ repeat = 0
    /\ procs = <<>>
    /\ attr_in \in [language_code : {upper(indices[i]) : i \in 1..Len(indices)},
                    attributes : AttrSeqs(MaxAttrs, TRUE),
                    variants : UNION {[1..n -> [attributes :
                                                   AttrSeqs(MaxVariantAttrs, FALSE),
                                                channelListings : {<<>>}]]
                                      : n \in 0..MaxVariants}]
    /\ attr_out = <<>>

map_attributes ==
    /\ attr_out = <<>>
    /\ attr_out' = <<map_product_attributes(attr_in, attr_in.language_code)>>
    /\ UNCHANGED <<active, productExists, slug, metadata, vendor_set, listings, index,
                   last, repeat, procs, popularity0, attr_in>>

NextAttr == map_attributes

SpecAttr == InitAttr /\ [][NextAttr]_vars

\* product_updated over products whose listings and first variant carry prices
PriceListingKinds ==
    [pricing : {TRUE}, isPublished : {TRUE}, isAvailableForPurchase : {TRUE},
     discount : BOOLEAN, discountedPrice : {NullMoney, Money(1999)}]
    \cup [pricing : {TRUE}, isPublished : {FALSE}, isAvailableForPurchase : {TRUE},
          discount : {TRUE}, discountedPrice : {Money(1999)}]

VariantListing(p) == [price |-> p]
Variant(ls) == [attributes |-> <<>>, channelListings |-> ls]

\* no variant; a variant without listings; a variant whose first listing has
\* a null price or a price; a second listing and a second variant, priced
\* differently from the first
PriceVariants ==
    {<<>>,
     <<Variant(<<>>)>>,
     <<Variant(<<VariantListing(NullMoney)>>)>>,
     <<Variant(<<VariantListing(Money(2999))>>)>>,
     <<Variant(<<VariantListing(Money(2999)), VariantListing(Money(3999))>>)>>,
     <<Variant(<<VariantListing(Money(3999))>>),
       Variant(<<VariantListing(Money(2999))>>)>>}

InitPrice ==
    /\ active = TRUE
    /\ productExists = TRUE
    /\ slug = "shirt"
    /\ metadata = EmptyMetadata
    /\ vendor_set = {}
    /\ listings \in UNION {[1..n -> PriceListingKinds] : n \in 1..MaxListings}
    /\ index = [l \in LocaleSet |-> {}]
    /\ last = Idle
    /\ repeat = 0
    /\ procs = <<>>
    /\ popularity0 = 0
    /\ attr_in \in [language_code : {"EN"}, attributes : {<<>>},
                    variants : PriceVariants]
    /\ attr_out = <<>>

NextPrice == product_updated

SpecPrice == InitPrice /\ [][NextPrice]_vars

\* ------------------------------------------------------------- properties
\* Every catalog change forgets the recorded invocation, so the catalog of a
\* state whose record is not Idle is the catalog that invocation read (the
\* vendor association set and the popularity excepted, which hooks write).

Popularity == get_value_from_metadata(metadata, "popularity", 0)

BuildsOf(rec) == {rec.builds[i] : i \in 1..Len(rec.builds)}
CallsOf(rec) == {rec.calls[i] : i \in 1..Len(rec.calls)}
CallsTo(rec, locale) == {i \in 1..Len(rec.calls) : rec.calls[i].locale = locale}
DocBuildsFor(rec, locale) ==
    {i \in 1..Len(rec.builds) :
        rec.builds[i].locale = locale /\ rec.builds[i].result = "doc"}

\* a listing that is both published and available for purchase
PublishedAndPurchasable(l) == l.isPublished /\ l.isAvailableForPurchase

VendorReferenceResolves ==
    get_value_from_metadata(metadata, "vendor", None) \in Vendors \cup {None}

\* C1 (as stated): a build that completes returns a document if and only if
\* some listing is both published and available for purchase, and a build
\* that returns none is followed by no remote call for its locale.
C1_DocumentIffPublishedAndPurchasable ==
    \A b \in BuildsOf(last) :
        b.result # "raise" =>
            /\ b.result = "doc" <=>
                  \E i \in 1..Len(listings) : PublishedAndPurchasable(listings[i])
            /\ b.result # "doc" => CallsTo(last, b.locale) = {}

\* C1 (amended): a build that completes returns a document if and only if the
\* query came back without errors and some listing has pricing and is both
\* published and available for purchase; a build that returns none, or
\* raises, is followed by no remote call for its locale: each locale gets
\* exactly as many remote calls as builds that returned a document for it.
C1_DocumentIffEligibleAndClean ==
    /\ \A b \in BuildsOf(last) :
          b.result # "raise" =>
             (b.result = "doc" <=>
                 /\ b.query = "ok"
                 /\ \E i \in 1..Len(listings) :
                       listings[i].pricing /\ PublishedAndPurchasable(listings[i]))
    /\ last.hook # "product_deleted" =>
          \A l \in LocaleSet :
             Cardinality(CallsTo(last, l)) = Cardinality(DocBuildsFor(last, l))

\* C1 witness: a hook built a document for a product that also has a listing
\* which is not eligible, and sent it.
C1_Witness ==
    /\ \E b \in BuildsOf(last) : b.result = "doc"
    /\ \E i \in 1..Len(listings) : ~is_eligible(listings[i])
    /\ last.calls # <<>>

\* C5: a per-event hook never lets a failure out: it returns normally.
C5_HookReturnsNormally ==
    last.hook \in {"product_created", "product_updated", "product_deleted",
                   "translation_created", "translation_updated",
                   "product_variant_created", "product_variant_updated"}
        => last.outcome = "returned"

\* C6 (as stated): query errors do not stop the document: with errors and an
\* eligible listing the build returns the document and the hook sends it.
C6_DocumentDespiteErrors ==
    \A b \in BuildsOf(last) :
        (/\ b.query = "errors"
         /\ VendorReferenceResolves
         /\ \E i \in 1..Len(listings) : is_eligible(listings[i]))
        => b.result = "doc" /\ CallsTo(last, b.locale) # {}

\* C6 (amended): a build whose query returned errors returns no document,
\* eligible listing or not, and its locale gets no remote call from it.
C6_ErrorsSkipDocument ==
    \A b \in BuildsOf(last) :
        b.query # "ok" =>
            /\ b.result # "doc"
            /\ Cardinality(CallsTo(last, b.locale)) =
                   Cardinality(DocBuildsFor(last, b.locale))
            /\ Cardinality(DocBuildsFor(last, b.locale)) = 0

\* C6 witness: a build ran with query errors on a product with an eligible
\* listing and returned nothing, while the hook returned.
C6_Witness ==
    /\ \E b \in BuildsOf(last) : b.query = "errors" /\ b.result = "None"
    /\ \E i \in 1..Len(listings) : is_eligible(listings[i])
    /\ last.outcome = "returned"

\* C4: with a vendor reference to an existing vendor X in the metadata, a built
\* document lists exactly X's brand name, and afterwards X is the only vendor
\* associated with the product.
C4_VendorExclusive ==
    LET x == get_value_from_metadata(metadata, "vendor", None) IN
    x \in Vendors =>
        \A c \in CallsOf(last) :
            c.op # "delete_object" =>
                /\ c.obj.vendors = <<brand_name(x)>>
                /\ vendor_set = {x}

RunsPath(rec, op) ==
    /\ rec.client
    /\ rec.builds # <<>>
    /\ \A c \in CallsOf(rec) : c.op = op
    /\ \A l \in LocaleSet :
          Cardinality(CallsTo(rec, l)) = Cardinality(DocBuildsFor(rec, l))

DoesNothing(rec) == ~rec.client /\ rec.builds = <<>> /\ rec.calls = <<>>

\* C8 (as stated): both translation hooks run the update path
\* (partial_update_object) exactly for product translations.
C8_TranslationRunsUpdate ==
    (last.hook \in {"translation_created", "translation_updated"} /\ active) =>
        IF last.arg = "ProductTranslation"
        THEN RunsPath(last, "partial_update_object")
        ELSE DoesNothing(last)

\* C8 (amended): translation_updated runs the update path
\* (partial_update_object) and translation_created the create path
\* (save_object), each exactly for product translations.
C8_TranslationRunsOwnPath ==
    /\ (last.hook = "translation_updated" /\ active) =>
          IF last.arg = "ProductTranslation"
          THEN RunsPath(last, "partial_update_object")
          ELSE DoesNothing(last)
    /\ (last.hook = "translation_created" /\ active) =>
          IF last.arg = "ProductTranslation"
          THEN RunsPath(last, "save_object")
          ELSE DoesNothing(last)

\* C8 witness: translation_updated of a product translation wrote to both
\* indices.
C8_Witness ==
    /\ last.hook = "translation_updated" /\ last.arg = "ProductTranslation"
    /\ Len(last.calls) = Len(indices)
    /\ \A c \in CallsOf(last) : c.op = "partial_update_object" /\ c.accepted

\* C9: a product_updated that directly follows a product_updated, with no
\* catalog change between them, sends each locale the same document as the
\* first one did.
C9_UpdateTwiceSamePayload ==
    [][(last.hook = "product_updated" /\ last'.hook = "product_updated") =>
          \A i \in 1..Len(last.calls), j \in 1..Len(last'.calls) :
              last.calls[i].locale = last'.calls[j].locale
                  => last.calls[i].obj = last'.calls[j].obj]_vars

\* C9 witness: two product_updated runs in a row both wrote to every index,
\* for a product with a vendor reference and a second associated vendor.
C9_Witness ==
    /\ repeat = 1
    /\ Len(last.calls) = Len(indices)
    /\ get_value_from_metadata(metadata, "vendor", None) \in Vendors
    /\ Cardinality(vendor_set) = 2

\* C2: an order_created that returns leaves the stored popularity at its
\* previous value plus the quantities of the order's lines that have a
\* product, so never lower than before, and writes only with save_object.
C2_PopularityAccumulates ==
    [][(last'.hook = "order_created" /\ last'.outcome = "returned") =>
          /\ Popularity' = Popularity + total_quantity(last'.lines)
          /\ Popularity' >= Popularity
          /\ \A i \in 1..Len(last'.calls) : last'.calls[i].op = "save_object"]_vars

RECURSIVE SumQuantities(_)
SumQuantities(S) ==
    IF S = {} THEN 0
    ELSE LET p == CHOOSE x \in S : TRUE
         IN procs[p].quantity + SumQuantities(S \ {p})

\* C3: once every interleaved order_created has finished, the stored
\* popularity is the initial popularity plus all the line quantities.
C3_NoLostUpdate ==
    (procs # <<>> /\ \A p \in DOMAIN procs : procs[p].pc = "done")
        => Popularity = popularity0 + SumQuantities(DOMAIN procs)

AllAttributes == attr_in.attributes \o variant_attributes(attr_in.variants)

\* the translated assignments, in order
Translated == SelectSeq(AllAttributes, LAMBDA a : a.translation # None)

\* C10: at the base locale the result holds one mapping name -> value names
\* per assignment, product assignments first; at another locale it holds one
\* mapping per translated attribute and nothing for an untranslated one, and
\* only translated values.
C10_UntranslatedOmitted ==
    attr_out # <<>> =>
        IF attr_in.language_code = "EN"
        THEN attr_out[1].attrs =
                [i \in 1..Len(AllAttributes) |->
                    Dict1(AllAttributes[i].name, value_names(AllAttributes[i].values))]
        ELSE attr_out[1].attrs =
                [i \in 1..Len(Translated) |->
                    Dict1(Translated[i].translation,
                          translated_value_names(Translated[i].values))]

\* the base price, read off the first variant's first channel listing
VariantPricing ==
    /\ attr_in.variants # <<>>
    /\ attr_in.variants[1].channelListings # <<>>
    /\ ~attr_in.variants[1].channelListings[1].price.null

BasePrice ==
    IF VariantPricing THEN attr_in.variants[1].channelListings[1].price.amount ELSE 0

\* the listing a channel block was made from
ListingOf(block) ==
    listings[CHOOSE i \in 1..Len(listings) : Channels[i] = block.name]

\* C11: in every document written, each channel block's price is the base
\* price (the first variant's first channel listing price, 0 without variant
\* pricing), and its discounted_price is the listing's discounted price amount
\* when the listing has both a discount and a discounted price, else the base
\* price.
C11_BlockPrices ==
    \A j \in 1..Len(last.calls) :
        last.calls[j].op # "delete_object" =>
            \A k \in 1..Len(last.calls[j].obj.channels) :
                LET block == last.calls[j].obj.channels[k]
                    l == ListingOf(block)
                IN /\ \E i \in 1..Len(listings) : Channels[i] = block.name
                   /\ block.price = BasePrice
                   /\ block.discounted_price =
                        IF l.discount /\ ~l.discountedPrice.null
                        THEN l.discountedPrice.amount
                        ELSE BasePrice

\* a document written with a block at the discounted price 19.99, and a block
\* of a listing that has a discounted price but no discount at the base 29.99
C11_Witness ==
    \E j \in 1..Len(last.calls) :
        /\ last.calls[j].op = "partial_update_object"
        /\ Len(last.calls[j].obj.channels) = 2
        /\ last.calls[j].obj.channels[1].price = 2999
        /\ last.calls[j].obj.channels[1].discounted_price = 1999
        /\ ~listings[2].discount
        /\ ~listings[2].discountedPrice.null
        /\ last.calls[j].obj.channels[2].discounted_price = 2999

\* a step of a hook outside the order path that called get_product_data
BuildStep ==
    /\ last'.hook \notin {"none", "order_created"}
    /\ last'.builds # <<>>

\* some build of the step ran to its end (with or without a document)
BuildCompleted == \E i \in 1..Len(last'.builds) : last'.builds[i].result # "raise"

C13_InactiveNoEffect ==
    [][~active /\ last'.hook # "none" =>
        /\ ~last'.client
        /\ last'.calls = <<>>
        /\ metadata' = metadata]_vars

====
